---- MODULE Spec2Model ----
(***************************************************************************)
(* Clause segmentation, alignment and conflict classification of          *)
(* streamlit_app.py: split_into_clauses, match_clauses,                   *)
(* analyze_compliance and the part of show_compliance_analysis that       *)
(* drives them.                                                            *)
(*                                                                         *)
(* A text is a sequence of characters; a character is a one-element       *)
(* string.  Chinese characters are written in pinyin ("bu" "de" is the    *)
(* prohibition marker bu-de, "ke" "yi" the permission marker ke-yi).      *)
(* Python indices are 0-based, the sequences here are 1-based: an index   *)
(* of the model is the Python index plus one.                              *)
(* A similarity ratio is kept exact as <<numerator, denominator>>.        *)
(***************************************************************************)
EXTENDS Integers, Sequences, FiniteSets, TLC

VARIABLES
    pc,              \* position of the run
    text1, text2,    \* the two extracted document texts
    clauses1, clauses2,
    i,               \* match_clauses: index of the next clause of clauses1
    matched_pairs,   \* match_clauses: <<clause1, best_match, best_ratio>>
    used_indices,    \* match_clauses: indices of clauses2 already paired
    pair_indices,    \* history: <<i, best_j>> of every appended pair
    unmatched1, unmatched2,
    unmatched1_indices,  \* history: the indices of clauses1 kept in unmatched1
    analyzed_pairs,  \* show_compliance_analysis: analysed matched pairs
    clause1, clause2,    \* analyze_compliance: its two arguments
    verdict          \* analyze_compliance: <<compliance, conflicts, similarity>>

vars == <<pc, text1, text2, clauses1, clauses2, i, matched_pairs, used_indices,
          pair_indices, unmatched1, unmatched2, unmatched1_indices,
          analyzed_pairs, clause1, clause2, verdict>>

----------------------------------------------------------------------------
(* Small helpers *)

Min(S) == CHOOSE x \in S : \A y \in S : x <= y

Max(S) == CHOOSE x \in S : \A y \in S : x >= y

RECURSIVE Concat(_)
Concat(ss) == IF ss = <<>> THEN <<>> ELSE Head(ss) \o Concat(Tail(ss))

\* all sequences over S of length 0..n
SeqsUpTo(S, n) == UNION {[1..m -> S] : m \in 0..n}

----------------------------------------------------------------------------
(* difflib.SequenceMatcher(None, a, b).ratio(), as called by match_clauses *)
(* and analyze_compliance.  No junk: isjunk is None and the autojunk      *)
(* heuristic needs 200 elements.  Windows are [lo, hi), 1-based.          *)

\* length of the common run that starts at a[ai], b[bj] inside the window
RECURSIVE RunLen(_, _, _, _, _, _)
RunLen(a, ai, ahi, b, bj, bhi) ==
    IF ai >= ahi \/ bj >= bhi THEN 0
    ELSE IF a[ai] # b[bj] THEN 0
    ELSE 1 + RunLen(a, ai + 1, ahi, b, bj + 1, bhi)

\* longest matching block of a[alo:ahi] and b[blo:bhi]: of all longest
\* blocks the one starting earliest in a, and of those the one starting
\* earliest in b; <<alo, blo, 0>> when nothing matches
find_longest_match(a, alo, ahi, b, blo, bhi) ==
    LET cells == {c \in (alo..(ahi - 1)) \X (blo..(bhi - 1)) : a[c[1]] = b[c[2]]}
        size == [c \in cells |-> RunLen(a, c[1], ahi, b, c[2], bhi)]
    IN  IF cells = {} THEN <<alo, blo, 0>>
        ELSE LET bestsize == Max({size[c] : c \in cells})
                 besti == Min({c[1] : c \in {d \in cells : size[d] = bestsize}})
                 bestj == Min({c[2] : c \in {d \in cells : size[d] = bestsize /\ d[1] = besti}})
             IN  <<besti, bestj, bestsize>>

RECURSIVE matches(_, _, _, _, _, _)

\* the left recursion handed the whole of b's window instead of the piece
\* of b left of the block
matches_wide_left(a, alo, ahi, b, blo, bhi) ==
    LET x == find_longest_match(a, alo, ahi, b, blo, bhi)
        bi == x[1]
        bj == x[2]
        k == x[3]
    IN  IF k = 0 THEN 0
        ELSE k
             + (IF alo < bi THEN matches(a, alo, bi, b, blo, bhi) ELSE 0)
             + (IF bi + k < ahi /\ bj + k < bhi
                THEN matches(a, bi + k, ahi, b, bj + k, bhi) ELSE 0)

\* get_matching_blocks: total size of the blocks found by taking the longest
\* block and recursing on the pieces to its left and to its right
matches(a, alo, ahi, b, blo, bhi) ==
    LET x == find_longest_match(a, alo, ahi, b, blo, bhi)
        bi == x[1]
        bj == x[2]
        k == x[3]
    IN  IF k = 0 THEN 0
        ELSE k
             + (IF alo < bi /\ blo < bj THEN matches(a, alo, bi, b, blo, bj) ELSE 0)
             + (IF bi + k < ahi /\ bj + k < bhi
                THEN matches(a, bi + k, ahi, b, bj + k, bhi) ELSE 0)

\* ratio(): 2.0 * matches / length, and 1.0 when both are empty
ratio(a, b) ==
    LET length == Len(a) + Len(b)
    IN  IF length = 0 THEN <<1, 1>>
        ELSE <<2 * matches(a, 1, Len(a) + 1, b, 1, Len(b) + 1), length>>

\* comparisons of two ratios, and of a ratio with a decimal threshold
Gt(r, s) == r[1] * s[2] > s[1] * r[2]

Eq(r, s) == r[1] * s[2] = s[1] * r[2]

Le(r, s) == ~Gt(r, s)

----------------------------------------------------------------------------
(* analyze_compliance *)

\* re.search of a pattern that is an alternation of literal strings: some
\* alternative occurs in the clause (re.IGNORECASE changes nothing for
\* characters without case)
Occurs(word, clause) ==
    \E p \in 1..(Len(clause) - Len(word) + 1) :
        SubSeq(clause, p, p + Len(word) - 1) = word

re_search(pattern, clause) == \E word \in pattern.alts : Occurs(word, clause)

\* the five (pattern1, pattern2) pairs, in the order of the list
conflict_indicators == <<
    \* bu-de | jin-zhi | yan-jin   against   ke-yi | yun-xu | you-quan
    << [name |-> "bude|jinzhi|yanjin",
        alts |-> {<<"bu", "de">>, <<"jin", "zhi_stop">>, <<"yan", "jin">>}],
       [name |-> "keyi|yunxu|youquan",
        alts |-> {<<"ke", "yi_use">>, <<"yun", "xu_allow">>, <<"you", "quan_right">>}] >>,
    \* bi-xu | ying-dang   against   wu-xu | bu-bi | bu-ying-dang
    << [name |-> "bixu|yingdang",
        alts |-> {<<"bi", "xu_must">>, <<"ying", "dang">>}],
       [name |-> "wuxu|bubi|buyingdang",
        alts |-> {<<"wu_none", "xu_need">>, <<"bu", "bi">>, <<"bu", "ying", "dang">>}] >>,
    \* xiao-yu | di-yu | bu-chao-guo   against   da-yu | gao-yu | bu-shao-yu
    << [name |-> "xiaoyu|diyu|buchaoguo",
        alts |-> {<<"xiao_small", "yu">>, <<"di_low", "yu">>, <<"bu", "chao", "guo">>}],
       [name |-> "dayu|gaoyu|bushaoyu",
        alts |-> {<<"da", "yu">>, <<"gao", "yu">>, <<"bu", "shao", "yu">>}] >>,
    \* quan-bu | suo-you   against   bu-fen | ge-bie
    << [name |-> "quanbu|suoyou",
        alts |-> {<<"quan_all", "bu_part">>, <<"suo", "you">>}],
       [name |-> "bufen|gebie",
        alts |-> {<<"bu_part", "fen">>, <<"ge", "bie">>}] >>,
    \* you-xiao | sheng-xiao   against   wu-xiao | shi-xiao
    << [name |-> "youxiao|shengxiao",
        alts |-> {<<"you", "xiao_effect">>, <<"sheng", "xiao_effect">>}],
       [name |-> "wuxiao|shixiao",
        alts |-> {<<"wu_none", "xiao_effect">>, <<"shi_lose", "xiao_effect">>}] >> >>

\* the explanation string: which pattern document 1 holds, which document 2
Explanation(in1, in2) == [doc1 |-> in1.name, doc2 |-> in2.name]

\* a rule that appends for the first direction that holds and skips the other
rule_conflicts_elif(pattern1, pattern2, c1, c2) ==
    IF re_search(pattern1, c1) /\ re_search(pattern2, c2)
    THEN <<Explanation(pattern1, pattern2)>>
    ELSE IF re_search(pattern2, c1) /\ re_search(pattern1, c2)
    THEN <<Explanation(pattern2, pattern1)>>
    ELSE <<>>

\* one pass of the loop body: the two ifs of one (pattern1, pattern2)
rule_conflicts(pattern1, pattern2, c1, c2) ==
    (IF re_search(pattern1, c1) /\ re_search(pattern2, c2)
     THEN <<Explanation(pattern1, pattern2)>> ELSE <<>>)
    \o
    (IF re_search(pattern2, c1) /\ re_search(pattern1, c2)
     THEN <<Explanation(pattern2, pattern1)>> ELSE <<>>)

\* the loop over conflict_indicators, from rule n on
RECURSIVE find_conflicts(_, _, _)
find_conflicts(n, c1, c2) ==
    IF n > Len(conflict_indicators) THEN <<>>
    ELSE rule_conflicts(conflict_indicators[n][1], conflict_indicators[n][2], c1, c2)
         \o find_conflicts(n + 1, c1, c2)

\* the thresholds 0.8 and 0.5
ConsistentThreshold == <<8, 10>>

MostlyThreshold == <<5, 10>>

\* the four compliance levels: chong-tu (conflict), yi-zhi (consistent),
\* ji-ben yi-zhi (mostly consistent), cha-yi jiao-da (large difference)
Conflict == "chongtu"

Consistent == "yizhi"

MostlyConsistent == "jibenyizhi"

LargeDifference == "chayijiaoda"

\* grading that lets a high similarity override the conflicts
grade_similarity_first(conflicts, similarity) ==
    IF Gt(similarity, ConsistentThreshold) THEN <<Consistent, <<>>, similarity>>
    ELSE IF conflicts # <<>> THEN <<Conflict, conflicts, similarity>>
    ELSE IF Gt(similarity, MostlyThreshold) THEN <<MostlyConsistent, <<>>, similarity>>
    ELSE <<LargeDifference, <<>>, similarity>>

\* grading with the two similarity thresholds exchanged
grade_swapped(conflicts, similarity) ==
    IF conflicts # <<>> THEN <<Conflict, conflicts, similarity>>
    ELSE IF Gt(similarity, MostlyThreshold) THEN <<Consistent, <<>>, similarity>>
    ELSE IF Gt(similarity, ConsistentThreshold) THEN <<MostlyConsistent, <<>>, similarity>>
    ELSE <<LargeDifference, <<>>, similarity>>

\* the if/elif chain that picks the compliance level
grade(conflicts, similarity) ==
    IF conflicts # <<>> THEN <<Conflict, conflicts, similarity>>
    ELSE IF Gt(similarity, ConsistentThreshold) THEN <<Consistent, <<>>, similarity>>
    ELSE IF Gt(similarity, MostlyThreshold) THEN <<MostlyConsistent, <<>>, similarity>>
    ELSE <<LargeDifference, <<>>, similarity>>

analyze_compliance(c1, c2) ==
    grade(find_conflicts(1, c1, c2), ratio(c1, c2))

----------------------------------------------------------------------------
(* Inputs of analyze_compliance: clauses over three characters that carry *)
(* no marker, and clauses made of up to MaxWords marker words              *)

Alphabet == {"a", "b", "c"}

MaxLen == 3

Vocabulary == {
    <<"bu", "de">>, <<"ke", "yi_use">>,            \* rule 1, both sides
    <<"ying", "dang">>, <<"bu", "ying", "dang">>,  \* rule 2, both sides
    <<"you", "xiao_effect">>, <<"wu_none", "xiao_effect">>,  \* rule 5
    <<"jia">> }                                    \* a party name, no marker

MaxWords == 2

WordClauses == {Concat(ws) : ws \in SeqsUpTo(Vocabulary, MaxWords)}

\* the variables a specification does not use
NoDocuments == text1 = <<>> /\ text2 = <<>>

NoMatching ==
    /\ clauses1 = <<>> /\ clauses2 = <<>> /\ i = 1
    /\ matched_pairs = <<>> /\ used_indices = {} /\ pair_indices = <<>>
    /\ unmatched1 = <<>> /\ unmatched2 = <<>> /\ unmatched1_indices = <<>>
    /\ analyzed_pairs = <<>>

NoCall == clause1 = <<>> /\ clause2 = <<>> /\ verdict = <<>>

InitAnalyze ==
    /\ pc = "call"
    /\ \/ clause1 \in SeqsUpTo(Alphabet, MaxLen) /\ clause2 \in SeqsUpTo(Alphabet, MaxLen)
       \/ clause1 \in WordClauses /\ clause2 \in WordClauses
    /\ verdict = <<>>
    /\ NoDocuments
    /\ NoMatching

\* one call analyze_compliance(clause1, clause2)
AnalyzeCompliance ==
    /\ pc = "call"
    /\ verdict' = analyze_compliance(clause1, clause2)
    /\ pc' = "returned"
    /\ UNCHANGED <<text1, text2, clauses1, clauses2, i, matched_pairs, used_indices,
                   pair_indices, unmatched1, unmatched2, unmatched1_indices,
                   analyzed_pairs, clause1, clause2>>

NextAnalyze == AnalyzeCompliance

SpecAnalyze == InitAnalyze /\ [][NextAnalyze]_vars

----------------------------------------------------------------------------
(* split_into_clauses *)

\* \d, [1-9], \s and [yi er san si wu liu qi ba jiu shi] (the numerals 1..10)
IsDigit(c) == c \in {"0", "1", "2", "3", "4", "5", "6", "7", "8", "9"}

IsNonZeroDigit(c) == c \in {"1", "2", "3", "4", "5", "6", "7", "8", "9"}

IsSpace(c) == c \in {" ", "\n", "\t", "\r"}

IsNumeral(c) ==
    c \in {"yi", "er", "san", "si", "wu_five", "liu", "qi", "ba", "jiu", "shi_ten"}

\* membership in a character class, by the name of the class
InClass(class, c) ==
    CASE class = "digit" -> IsDigit(c)
      [] class = "nonzero" -> IsNonZeroDigit(c)
      [] class = "space" -> IsSpace(c)
      [] class = "numeral" -> IsNumeral(c)

\* a greedy class+ or class*: the first position from p on that is not in
\* the class (Len + 1 when the run reaches the end)
RECURSIVE RunEnd(_, _, _)
RunEnd(text, p, class) ==
    IF p > Len(text) THEN p
    ELSE IF InClass(class, text[p]) THEN RunEnd(text, p + 1, class)
    ELSE p

\* the character at p is c
At(text, p, c) == p <= Len(text) /\ text[p] = c

\* \s+ from p: the position after the whitespace, 0 when there is none
SpacesEnd(text, p) ==
    LET e == RunEnd(text, p, "space") IN IF e > p THEN e ELSE 0

\* the four formats, in the order of the list patterns
patterns == <<"1. 2. 3.", "yi, er, san,", "di yi tiao", "(1) (2) (3)">>

\* the marker of a format matched at p, its \s+ included: the position after
\* it, 0 when it does not match at p
\*   \d+\.\s+      [numerals]+<dunhao>\s+      (?:di)?[numerals]+tiao\s+
\*   \([1-9]+\)\s+
marker_end(pattern, text, p) ==
    CASE pattern = "1. 2. 3." ->
            LET q == RunEnd(text, p, "digit")
            IN  IF q > p /\ At(text, q, ".") THEN SpacesEnd(text, q + 1) ELSE 0
      [] pattern = "yi, er, san," ->
            LET q == RunEnd(text, p, "numeral")
            IN  IF q > p /\ At(text, q, "dunhao") THEN SpacesEnd(text, q + 1) ELSE 0
      [] pattern = "di yi tiao" ->
            LET p2 == IF At(text, p, "di") THEN p + 1 ELSE p
                q == RunEnd(text, p2, "numeral")
            IN  IF q > p2 /\ At(text, q, "tiao") THEN SpacesEnd(text, q + 1) ELSE 0
      [] pattern = "(1) (2) (3)" ->
            IF At(text, p, "(")
            THEN LET q == RunEnd(text, p + 1, "nonzero")
                 IN  IF q > p + 1 /\ At(text, q, ")") THEN SpacesEnd(text, q + 1) ELSE 0
            ELSE 0

\* the lookahead (?=marker|$) at q: a marker starts at q, or q is the end of
\* the text, or q is before a newline that ends the text
lookahead(pattern, text, q) ==
    \/ marker_end(pattern, text, q) > 0
    \/ q = Len(text) + 1
    \/ q = Len(text) /\ text[q] = "\n"

\* re.findall(pattern, text, re.DOTALL) from position pos on: the leftmost
\* marker, then as few characters as reach a position where the lookahead
\* holds; the next match is searched from there
RECURSIVE findall(_, _, _)
findall(pattern, text, pos) ==
    LET starts == {st \in pos..Len(text) : marker_end(pattern, text, st) > 0}
    IN  IF starts = {} THEN <<>>
        ELSE LET st == Min(starts)
                 content == marker_end(pattern, text, st)
                 e == Min({q \in content..(Len(text) + 1) : lookahead(pattern, text, q)})
             IN  <<SubSeq(text, st, e - 1)>> \o findall(pattern, text, e)

\* str.strip()
RECURSIVE strip_right(_)
strip_right(text) ==
    IF text # <<>> /\ IsSpace(text[Len(text)])
    THEN strip_right(SubSeq(text, 1, Len(text) - 1))
    ELSE text

strip(text) ==
    LET first == RunEnd(text, 1, "space")
    IN  strip_right(SubSeq(text, first, Len(text)))

\* text.split('\n\n')
RECURSIVE str_split(_)
str_split(text) ==
    LET seps == {p \in 1..(Len(text) - 1) : text[p] = "\n" /\ text[p + 1] = "\n"}
    IN  IF seps = {} THEN <<text>>
        ELSE <<SubSeq(text, 1, Min(seps) - 1)>>
             \o str_split(SubSeq(text, Min(seps) + 2, Len(text)))

\* [x.strip() for x in xs if x.strip()]
RECURSIVE stripped_nonempty(_)
stripped_nonempty(xs) ==
    IF xs = <<>> THEN <<>>
    ELSE (IF strip(Head(xs)) # <<>> THEN <<strip(Head(xs))>> ELSE <<>>)
         \o stripped_nonempty(Tail(xs))

\* the paragraphs without the filter "if p.strip()"
RECURSIVE strip_all(_)
strip_all(xs) ==
    IF xs = <<>> THEN <<>> ELSE <<strip(Head(xs))>> \o strip_all(Tail(xs))

paragraphs_unfiltered(text) == strip_all(str_split(text))

\* paragraphs = [p.strip() for p in text.split('\n\n') if p.strip()]
paragraphs(text) == stripped_nonempty(str_split(text))

\* a format accepted as soon as it is found twice
enough_two(clauses) == Len(clauses) > 1

\* len(clauses) > 3: the format is found often enough to be used
enough(clauses) == Len(clauses) > 3

\* the loop over patterns from the n-th on, then the split into paragraphs
RECURSIVE split_from(_, _)
split_from(n, text) ==
    IF n > Len(patterns) THEN paragraphs(text)
    ELSE LET clauses == findall(patterns[n], text, 1)
         IN  IF enough(clauses) THEN stripped_nonempty(clauses)
             ELSE split_from(n + 1, text)

split_into_clauses(text) == split_from(1, text)

----------------------------------------------------------------------------
(* match_clauses *)

\* best_ratio = 0.3, the lowest ratio that is not yet a match
MatchThreshold == <<3, 10>>

\* best_match = None, best_ratio = 0.3, best_j = -1.  None is written <<>>:
\* the one use of best_match before it is stored is the test "if best_match",
\* which None and the empty string both fail.
NoBest == [best_match |-> <<>>, best_ratio |-> MatchThreshold, best_j |-> 0]

RECURSIVE scan_clauses2(_, _, _, _, _)

\* the inner loop without the test "j not in used_indices"
scan_clauses2_any(c1, cs2, used, j, best) ==
    IF j > Len(cs2) THEN best
    ELSE LET r == ratio(c1, cs2[j])
         IN  IF Gt(r, best.best_ratio) /\ Gt(r, best.best_ratio)
             THEN scan_clauses2(c1, cs2, used, j + 1,
                                [best_match |-> cs2[j], best_ratio |-> r, best_j |-> j])
             ELSE scan_clauses2(c1, cs2, used, j + 1, best)

\* the inner loop with ">=" for ">": the last of several equal scores wins
scan_clauses2_last_wins(c1, cs2, used, j, best) ==
    IF j > Len(cs2) THEN best
    ELSE IF j \in used THEN scan_clauses2(c1, cs2, used, j + 1, best)
    ELSE LET r == ratio(c1, cs2[j])
         IN  IF ~Gt(best.best_ratio, r)
             THEN scan_clauses2(c1, cs2, used, j + 1,
                                [best_match |-> cs2[j], best_ratio |-> r, best_j |-> j])
             ELSE scan_clauses2(c1, cs2, used, j + 1, best)

\* the inner loop over clauses2, from index j on, with the best so far
scan_clauses2(c1, cs2, used, j, best) ==
    IF j > Len(cs2) THEN best
    ELSE IF j \in used THEN scan_clauses2(c1, cs2, used, j + 1, best)
    ELSE LET r == ratio(c1, cs2[j])
         IN  IF Gt(r, best.best_ratio) /\ Gt(r, best.best_ratio)
             THEN scan_clauses2(c1, cs2, used, j + 1,
                                [best_match |-> cs2[j], best_ratio |-> r, best_j |-> j])
             ELSE scan_clauses2(c1, cs2, used, j + 1, best)

\* "if best_match": neither None nor the empty string
Truthy(best_match) == best_match # <<>>

\* enumerate(xs): the indices of a list, in order
enumerate(xs) == [idx \in 1..Len(xs) |-> idx]

\* [p[0] for p in [(idx, pair) for idx, pair in enumerate(matched_pairs)]]:
\* the positions of the pairs in matched_pairs
pair_positions(pairs) == {idx : idx \in 1..Len(pairs)}

\* the indices of clauses1 that go to unmatched1
unmatched1_kept(cs1, pairs) ==
    LET keep(idx) == idx \notin pair_positions(pairs)
    IN  SelectSeq(enumerate(cs1), keep)

\* the filter of unmatched2 with the indices counted from the wrong base
unmatched2_kept_shifted(cs2, used) ==
    LET keep(j) == (j + 1) \notin used
    IN  SelectSeq(enumerate(cs2), keep)

\* the indices of clauses2 that go to unmatched2
unmatched2_kept(cs2, used) ==
    LET keep(j) == j \notin used
    IN  SelectSeq(enumerate(cs2), keep)

\* the clauses at the kept indices, in order
ClausesAt(cs, kept) == [n \in 1..Len(kept) |-> cs[kept[n]]]

\* one pass of the outer loop: the clause clauses1[i]
MatchStep ==
    /\ pc = "match"
    /\ i <= Len(clauses1)
    /\ LET best == scan_clauses2(clauses1[i], clauses2, used_indices, 1, NoBest)
       IN  IF Truthy(best.best_match)
           THEN /\ matched_pairs' = Append(matched_pairs,
                                           <<clauses1[i], best.best_match, best.best_ratio>>)
                /\ used_indices' = used_indices \cup {best.best_j}
                /\ pair_indices' = Append(pair_indices, <<i, best.best_j>>)
           ELSE UNCHANGED <<matched_pairs, used_indices, pair_indices>>
    /\ i' = i + 1
    /\ UNCHANGED <<pc, text1, text2, clauses1, clauses2, unmatched1, unmatched2,
                   unmatched1_indices, analyzed_pairs, clause1, clause2, verdict>>

\* after the loop: collect the unmatched clauses and return
CollectUnmatched ==
    /\ pc = "match"
    /\ i > Len(clauses1)
    /\ unmatched1_indices' = unmatched1_kept(clauses1, matched_pairs)
    /\ unmatched1' = ClausesAt(clauses1, unmatched1_indices')
    /\ unmatched2' = ClausesAt(clauses2, unmatched2_kept(clauses2, used_indices))
    /\ pc' = "matched"
    /\ UNCHANGED <<text1, text2, clauses1, clauses2, i, matched_pairs, used_indices,
                   pair_indices, analyzed_pairs, clause1, clause2, verdict>>

\* clause lists as split_into_clauses returns them: stripped, non-empty clauses
ClauseUniverse == {
    <<"a">>, <<"a", "b">>, <<"b", "a">>,
    <<"b", "b", "b", "b", "b", "a">> }

MaxClauses == 2

InitMatch ==
    /\ pc = "match"
    /\ clauses1 \in SeqsUpTo(ClauseUniverse, MaxClauses)
    /\ clauses2 \in SeqsUpTo(ClauseUniverse, MaxClauses)
    /\ i = 1 /\ matched_pairs = <<>> /\ used_indices = {} /\ pair_indices = <<>>
    /\ unmatched1 = <<>> /\ unmatched2 = <<>> /\ unmatched1_indices = <<>>
    /\ analyzed_pairs = <<>>
    /\ NoDocuments
    /\ NoCall

NextMatch == MatchStep \/ CollectUnmatched

SpecMatch == InitMatch /\ [][NextMatch]_vars

----------------------------------------------------------------------------
(* show_compliance_analysis: split both texts, match the clauses, analyse *)
(* every matched pair, sort the analysed pairs                             *)

\* clauses1 = split_into_clauses(text1); clauses2 = split_into_clauses(text2)
SplitTexts ==
    /\ pc = "split"
    /\ clauses1' = split_into_clauses(text1)
    /\ clauses2' = split_into_clauses(text2)
    /\ pc' = "match"
    /\ UNCHANGED <<text1, text2, i, matched_pairs, used_indices, pair_indices,
                   unmatched1, unmatched2, unmatched1_indices, analyzed_pairs,
                   clause1, clause2, verdict>>

\* one pass of the loop over matched_pairs: analyse the next pair
AnalyzePair ==
    /\ pc = "matched"
    /\ Len(analyzed_pairs) < Len(matched_pairs)
    /\ LET pair == matched_pairs[Len(analyzed_pairs) + 1]
           result == analyze_compliance(pair[1], pair[2])
       IN  analyzed_pairs' = Append(analyzed_pairs,
               [clause1 |-> pair[1], clause2 |-> pair[2], similarity |-> result[3],
                compliance |-> result[1], conflicts |-> result[2]])
    /\ UNCHANGED <<pc, text1, text2, clauses1, clauses2, i, matched_pairs,
                   used_indices, pair_indices, unmatched1, unmatched2,
                   unmatched1_indices, clause1, clause2, verdict>>

\* the sort key: the index of the level in this list
sort_order == <<Conflict, LargeDifference, MostlyConsistent, Consistent>>

\* list.sort by the key: stable, so the pairs of one level keep their order
RECURSIVE sort_from(_, _)
sort_from(n, pairs) ==
    IF n > Len(sort_order) THEN <<>>
    ELSE LET of_level(pair) == pair.compliance = sort_order[n]
         IN  SelectSeq(pairs, of_level) \o sort_from(n + 1, pairs)

SortPairs ==
    /\ pc = "matched"
    /\ Len(analyzed_pairs) = Len(matched_pairs)
    /\ analyzed_pairs' = sort_from(1, analyzed_pairs)
    /\ pc' = "done"
    /\ UNCHANGED <<text1, text2, clauses1, clauses2, i, matched_pairs, used_indices,
                   pair_indices, unmatched1, unmatched2, unmatched1_indices,
                   clause1, clause2, verdict>>

\* "di-yi-tiao jia-fang ying-dang zhi-fu kuan-xiang. di-er-tiao yi-fang
\*  bu-de zhuan-rang he-tong."  (Article 1: party A shall pay.  Article 2:
\*  party B must not assign the contract.)
ScenarioA ==
    <<"di", "yi", "tiao", " ", "jia", "fang", "ying", "dang", "zhi_pay", "fu",
      "kuan", "xiang", "juhao",
      "di", "er", "tiao", " ", "yi_second", "fang", "bu", "de", "zhuan", "rang",
      "he", "tong", "juhao">>

\* the same with bi-xu (must) for ying-dang and ke-yi (may) for bu-de
ScenarioB ==
    <<"di", "yi", "tiao", " ", "jia", "fang", "bi", "xu_must", "zhi_pay", "fu",
      "kuan", "xiang", "juhao",
      "di", "er", "tiao", " ", "yi_second", "fang", "ke", "yi_use", "zhuan", "rang",
      "he", "tong", "juhao">>

\* four articles and four numbered items: texts whose format is recognised
FourArticles ==
    <<"di", "yi", "tiao", " ", "jia", "di", "er", "tiao", " ", "jia", "fang",
      "di", "san", "tiao", " ", "bu", "de", "di", "si", "tiao", " ", "ke", "yi_use">>

FourItems ==
    <<"1", ".", " ", "jia", "\n", "2", ".", " ", "jia", "fang", "\n",
      "3", ".", " ", "bu", "de", "\n", "4", ".", " ", "ke", "yi_use", "\n">>

\* the pieces the other texts are made of: a numbered marker, a word, a
\* blank line
Parts == {<<"1", ".", " ">>, <<"jia">>, <<"\n", "\n">>}

MaxParts == 3

Documents ==
    {Concat(ps) : ps \in SeqsUpTo(Parts, MaxParts)}
    \cup {ScenarioA, ScenarioB, FourArticles, FourItems}

InitPipeline ==
    /\ pc = "split"
    /\ text1 \in Documents
    /\ text2 \in Documents
    /\ NoMatching
    /\ NoCall

NextPipeline ==
    \/ SplitTexts
    \/ MatchStep
    \/ CollectUnmatched
    \/ AnalyzePair
    \/ SortPairs

SpecPipeline == InitPipeline /\ [][NextPipeline]_vars

----------------------------------------------------------------------------
(* Properties of analyze_compliance *)

Returned == pc = "returned"

\* rule n fires: one clause holds one marker of the pair and the other clause
\* the opposite marker, in either direction
Forward(n, c1, c2) ==
    /\ re_search(conflict_indicators[n][1], c1)
    /\ re_search(conflict_indicators[n][2], c2)

Backward(n, c1, c2) ==
    /\ re_search(conflict_indicators[n][2], c1)
    /\ re_search(conflict_indicators[n][1], c2)

RuleFires(n, c1, c2) == Forward(n, c1, c2) \/ Backward(n, c1, c2)

Rules == 1..Len(conflict_indicators)

FiringRules == {n \in Rules : RuleFires(n, clause1, clause2)}

FiringDirections ==
    {n \in Rules : Forward(n, clause1, clause2)}
    \cup {-n : n \in {m \in Rules : Backward(m, clause1, clause2)}}

One == <<1, 1>>

\* C5: the verdict is Conflict exactly when some indicator-pair rule fires,
\* whatever the similarity is (similarity 1.0 included).
C5_ConflictPriority ==
    Returned => ((verdict[1] = Conflict) <=> (FiringRules # {}))

\* C5 witness: a conflict was returned for a pair of similarity 1.0
C5_Witness ==
    Returned /\ verdict[1] = Conflict /\ Eq(verdict[3], One) /\ FiringRules # {}

\* C6 as stated: the number of explanations equals the number of rules that
\* fire (so one rule never contributes two, and there are never more than five).
C6_OnePerRule ==
    Returned => /\ Len(verdict[2]) = Cardinality(FiringRules)
                /\ Len(verdict[2]) <= Len(conflict_indicators)

\* C6 amended: a rule contributes one explanation for each direction in which
\* it fires: the number of explanations equals the number of (rule, direction)
\* pairs that hold, which is at least the number of firing rules and at most
\* twice that number, and no explanation is listed twice.
C6_OnePerDirection ==
    Returned => /\ Len(verdict[2]) = Cardinality(FiringDirections)
                /\ Cardinality(FiringRules) <= Len(verdict[2])
                /\ Len(verdict[2]) <= 2 * Cardinality(FiringRules)
                /\ \A m, n \in 1..Len(verdict[2]) :
                       verdict[2][m] = verdict[2][n] => m = n

\* C6 witness: one rule fired in both directions and gave two explanations
C6_Witness ==
    Returned /\ Cardinality(FiringRules) = 1 /\ Len(verdict[2]) = 2

Rank(level) ==
    CASE level = LargeDifference -> 1
      [] level = MostlyConsistent -> 2
      [] level = Consistent -> 3

\* similarity values 0.00, 0.05, ..., 1.00
Scores == {<<n, 20>> : n \in 0..20}

\* C7: when no rule fires the level is Consistent for similarity > 0.8,
\* MostlyConsistent for 0.5 < similarity <= 0.8 and LargeDifference for
\* similarity <= 0.5, with no explanations; and a pair with a higher
\* (lower) similarity and no conflicts is never graded lower (higher).
C7_SimilarityGrading ==
    (Returned /\ FiringRules = {}) =>
        /\ verdict[2] = <<>>
        /\ (verdict[1] = Consistent) <=> Gt(verdict[3], <<8, 10>>)
        /\ (verdict[1] = MostlyConsistent) <=>
               (Gt(verdict[3], <<5, 10>>) /\ Le(verdict[3], <<8, 10>>))
        /\ (verdict[1] = LargeDifference) <=> Le(verdict[3], <<5, 10>>)
        /\ \A s \in Scores :
              /\ Gt(s, verdict[3]) => Rank(grade(<<>>, s)[1]) >= Rank(verdict[1])
              /\ Gt(verdict[3], s) => Rank(grade(<<>>, s)[1]) <= Rank(verdict[1])

\* C7 witness: a pair without conflicts graded MostlyConsistent
C7_Witness ==
    Returned /\ FiringRules = {} /\ verdict[1] = MostlyConsistent

\* C9 as stated: the similarity of (a, b) equals the similarity of (b, a)
C9_Symmetric ==
    Returned => Eq(verdict[3], ratio(clause2, clause1))

\* C9 amended: the similarity of (a, b) equals that of (b, a) when the two
\* sequences have at most five elements together, and for all sequences one
\* order gives 0 exactly when the other does and both orders give 1.0 for
\* equal sequences; longer pairs may score differently in the two orders.
C9_SymmetricWhenShort ==
    Returned =>
        /\ Len(clause1) + Len(clause2) <= 5 => Eq(verdict[3], ratio(clause2, clause1))
        /\ (verdict[3][1] = 0) <=> (ratio(clause2, clause1)[1] = 0)
        /\ clause1 = clause2 => Eq(verdict[3], One)

\* C9 witness: two different sequences of five elements together that share
\* elements were scored
C9_Witness ==
    /\ Returned
    /\ Len(clause1) + Len(clause2) = 5
    /\ verdict[3][1] > 0
    /\ ~Eq(verdict[3], One)

----------------------------------------------------------------------------
(* Properties of match_clauses *)

Matched == pc = "matched"

PairedA == {pair_indices[n][1] : n \in 1..Len(pair_indices)}

PairedB == {pair_indices[n][2] : n \in 1..Len(pair_indices)}

\* how often index idx of clauses1 is listed in unmatched1
TimesUnmatched1(idx) ==
    Cardinality({n \in 1..Len(unmatched1_indices) : unmatched1_indices[n] = idx})

TimesPairedA(idx) ==
    Cardinality({n \in 1..Len(pair_indices) : pair_indices[n][1] = idx})

\* C1: every clause of A, by index, is in exactly one of: the first component
\* of a matched pair, the unmatched1 list.
C1_PartitionOfA ==
    Matched => \A idx \in 1..Len(clauses1) :
                   TimesPairedA(idx) + TimesUnmatched1(idx) = 1

\* C2: no B-clause index is used by two matched pairs: a pair is only made
\* with a B-clause that no earlier pair holds, and used_indices is exactly
\* the set of B-clauses held by the pairs.
C2_Injective ==
    /\ \A m, n \in 1..Len(pair_indices) :
           pair_indices[m][2] = pair_indices[n][2] => m = n
    /\ used_indices = PairedB
    /\ Len(pair_indices) = Len(matched_pairs)
    /\ \A n \in 1..Len(pair_indices) :
           /\ pair_indices[n][1] \in 1..Len(clauses1)
           /\ pair_indices[n][2] \in 1..Len(clauses2)
           /\ matched_pairs[n][1] = clauses1[pair_indices[n][1]]
           /\ matched_pairs[n][2] = clauses2[pair_indices[n][2]]

\* C2 witness: a later A-clause scored best against a B-clause an earlier pair
\* holds, and was paired with another B-clause
C2_Witness ==
    /\ Matched
    /\ \E m, n \in 1..Len(pair_indices) :
           /\ m < n
           /\ Gt(ratio(clauses1[pair_indices[n][1]], clauses2[pair_indices[m][2]]),
                 matched_pairs[n][3])

\* C3: len(matched) + len(unmatched1) = len(A) and
\* len(matched) + len(unmatched2) = len(B).
C3_CoverageByCount ==
    Matched => /\ Len(matched_pairs) + Len(unmatched1) = Len(clauses1)
               /\ Len(matched_pairs) + Len(unmatched2) = Len(clauses2)

\* C3 witness: a result with a pair and an unmatched clause on each side
C3_Witness ==
    Matched /\ matched_pairs # <<>> /\ unmatched1 # <<>> /\ unmatched2 # <<>>

\* the step that handles clauses1[i]
StepOfI == pc = "match" /\ i <= Len(clauses1) /\ i' = i + 1

Candidates == (1..Len(clauses2)) \ used_indices

Score(j) == ratio(clauses1[i], clauses2[j])

\* the free B-clause of maximum similarity, the lowest index among equals
BestCandidate ==
    Min({j \in Candidates : \A n \in Candidates : Le(Score(n), Score(j))})

\* C4: A-clauses are handled in source order; the partner of an A-clause is
\* the free B-clause of maximum similarity, lowest index on equal scores; the
\* pair is appended, with that maximum as its score, only when the maximum
\* exceeds 0.3; otherwise nothing is paired and no B-clause is marked used.
\* Pairs made earlier are never changed.
C4_GreedyFirstClaimedWins ==
    [][StepOfI =>
         IF \E j \in Candidates : Gt(Score(j), <<3, 10>>)
         THEN /\ matched_pairs' = Append(matched_pairs,
                      <<clauses1[i], clauses2[BestCandidate], Score(BestCandidate)>>)
              /\ pair_indices' = Append(pair_indices, <<i, BestCandidate>>)
              /\ used_indices' = used_indices \cup {BestCandidate}
         ELSE /\ matched_pairs' = matched_pairs
              /\ pair_indices' = pair_indices
              /\ used_indices' = used_indices]_vars

\* C4 witness: an earlier A-clause kept its B-clause although a later A-clause
\* scores higher against that B-clause
C4_Witness ==
    /\ Matched
    /\ \E n \in 1..Len(pair_indices) : \E later \in 1..Len(clauses1) :
           /\ later > pair_indices[n][1]
           /\ Gt(ratio(clauses1[later], clauses2[pair_indices[n][2]]), matched_pairs[n][3])

----------------------------------------------------------------------------
(* Properties of the whole run *)

Done == pc = "done"

Recognizers == 1..Len(patterns)

\* no format is found more than three times in the text
FewSpans(text) ==
    \A n \in Recognizers : Len(findall(patterns[n], text, 1)) <= 3

HasBlankLine(text) ==
    \E p \in 1..(Len(text) - 1) : text[p] = "\n" /\ text[p + 1] = "\n"

NonSpace(text) == {p \in 1..Len(text) : ~IsSpace(text[p])}

\* the text without the whitespace at its two ends
Trimmed(text) ==
    IF NonSpace(text) = {} THEN <<>>
    ELSE SubSeq(text, Min(NonSpace(text)), Max(NonSpace(text)))

\* the text as one block
OneBlock(text) == IF Trimmed(text) = <<>> THEN <<>> ELSE <<Trimmed(text)>>

IsScenario == text1 = ScenarioA /\ text2 = ScenarioB

\* C8 as stated: the scenario documents are split into 2 clauses each, clause
\* 1 is paired with clause 1 and clause 2 with clause 2, and the second pair
\* is a Conflict.
C8_ScenarioTwoClauses ==
    (Done /\ IsScenario) =>
        /\ Len(clauses1) = 2
        /\ Len(clauses2) = 2
        /\ pair_indices = <<<<1, 1>>, <<2, 2>>>>
        /\ \E n \in 1..Len(analyzed_pairs) :
               /\ analyzed_pairs[n].clause1 = clauses1[2]
               /\ analyzed_pairs[n].compliance = Conflict

\* C8 amended: a text in which no format is found more than three times is
\* split at blank lines only, so without a blank line it is returned as one
\* block (nothing when it is all whitespace), whatever sentences or article
\* markers it holds.  Each scenario document is one clause, the two are paired
\* with each other and the pair is a Conflict with the one explanation of the
\* bu-de / ke-yi rule.
C8_ScenarioOneBlock ==
    /\ pc # "split" =>
          /\ (FewSpans(text1) /\ ~HasBlankLine(text1)) => clauses1 = OneBlock(text1)
          /\ (FewSpans(text2) /\ ~HasBlankLine(text2)) => clauses2 = OneBlock(text2)
    /\ (Done /\ IsScenario) =>
          /\ clauses1 = <<ScenarioA>>
          /\ clauses2 = <<ScenarioB>>
          /\ pair_indices = <<<<1, 1>>>>
          /\ unmatched1 = <<>> /\ unmatched2 = <<>>
          /\ Len(analyzed_pairs) = 1
          /\ analyzed_pairs[1].clause1 = ScenarioA
          /\ analyzed_pairs[1].clause2 = ScenarioB
          /\ analyzed_pairs[1].compliance = Conflict
          /\ analyzed_pairs[1].conflicts =
                 <<[doc1 |-> "bude|jinzhi|yanjin", doc2 |-> "keyi|yunxu|youquan"]>>

\* C8 witness: the run on the scenario documents has finished
C8_Witness == Done /\ IsScenario /\ Len(analyzed_pairs) = 1

AllSpace(text) == \A p \in 1..Len(text) : IsSpace(text[p])

\* C10: an empty or all-whitespace text gives no clauses; with no clauses on
\* one side match_clauses returns no pairs, nothing unmatched on that side
\* and every clause of the other side, in order, as unmatched.
C10_EmptyInput ==
    /\ pc # "split" =>
          /\ AllSpace(text1) => clauses1 = <<>>
          /\ AllSpace(text2) => clauses2 = <<>>
    /\ pc \in {"matched", "done"} =>
          /\ clauses1 = <<>> =>
                 matched_pairs = <<>> /\ unmatched1 = <<>> /\ unmatched2 = clauses2
          /\ clauses2 = <<>> =>
                 matched_pairs = <<>> /\ unmatched2 = <<>> /\ unmatched1 = clauses1

\* C10 witness: an all-whitespace text against a text of several clauses
C10_Witness ==
    /\ Done
    /\ text1 # <<>> /\ AllSpace(text1)
    /\ Len(clauses2) >= 2
    /\ unmatched2 = clauses2

====
